---- MODULE Spec2Model ----
(***************************************************************************)
(* Model of the lotto draw service (src/app.py): validate_combination,     *)
(* generate_unique_draw, analyse_hits and the /draw request handler.       *)
(*                                                                         *)
(* JSON scalars are records [k, v]:                                        *)
(*   k = "int"   the integer v                                             *)
(*   k = "float" the float v/10 (v is in tenths: 37 is 3.7, 30 is 3.0)     *)
(*   k = "str"   the string holding the decimal digits of v ("5")          *)
(*   k = "text"  a string that is no integer literal ("abc")               *)
(*   k = "bool"  true (v = 1) or false (v = 0); bool is a subclass of int  *)
(*   k = "none"  null                                                      *)
(* A batch element is [isList, items]; the request body is [kind, items].  *)
(***************************************************************************)
EXTENDS Integers, Sequences, FiniteSets, TLC

VARIABLES pc, data, numbers, vresult, validated, unique_combinations,
          attempts, last_draw, response

vars == <<pc, data, numbers, vresult, validated, unique_combinations,
          attempts, last_draw, response>>

(* ---------------- program constants ---------------- *)
MAX_COMBINATIONS == 200
LOTTO_MIN == 1
LOTTO_MAX == 36
NUMBERS_PER_COMBINATION == 7
max_attempts == 10000

(* ---------------- bounds of the model ---------------- *)
\* Longest batch whose elements are chosen one by one from ComboPool.
MaxBatchLen == 2
\* random.sample is explored on LOTTO_MIN..PopLow together with LOTTO_MAX.
PopLow == 7

(* ---------------- Python built-ins ---------------- *)
I(n) == [k |-> "int", v |-> n]

\* A list of Python ints.
Ints(s) == [j \in 1..Len(s) |-> I(s[j])]

\* isinstance(n, int): true of int and of its subclass bool.
isinstance_int(n) == n.k \in {"int", "bool"}

\* int(n) succeeds on int, bool, float and integer-literal strings; it raises
\* ValueError on other text and TypeError on None.
int_raises(n) == n.k \in {"text", "none"}

\* int(n): a float is truncated toward zero (values here are non-negative).
int(n) == IF n.k = "float" THEN n.v \div 10 ELSE n.v

RECURSIVE insort(_, _)
\* s is ascending; x goes after every element <= x.
insort(x, s) ==
    IF s = <<>> THEN <<x>>
    ELSE IF x < Head(s) THEN <<x>> \o s
    ELSE <<Head(s)>> \o insort(x, Tail(s))

RECURSIVE sorted(_)
\* sorted(list): ascending.
sorted(s) == IF s = <<>> THEN <<>> ELSE insort(s[Len(s)], sorted(SubSeq(s, 1, Len(s) - 1)))

RECURSIVE sorted_set_descending(_)
\* Variant: descending.
sorted_set_descending(S) ==
    IF S = {} THEN <<>>
    ELSE LET m == CHOOSE x \in S : \A y \in S : x >= y
         IN <<m>> \o sorted_set_descending(S \ {m})

RECURSIVE sorted_set(_)
\* sorted(set): ascending.
sorted_set(S) ==
    IF S = {} THEN <<>>
    ELSE LET m == CHOOSE x \in S : \A y \in S : x <= y
         IN <<m>> \o sorted_set(S \ {m})

\* set(c) / frozenset(c) of a list.
frozenset(c) == {c[i] : i \in 1..Len(c)}

(* ---------------- validate_combination ---------------- *)
MsgLength == "Each combination must have exactly 7 numbers."
MsgInteger == "All numbers must be integers."
MsgRange == "All numbers must be between 1 and 36."
MsgUnique == "Numbers within a combination must be unique."

\* Variant: the lower end of the range is excluded.
in_range_exclusive(n) == LOTTO_MIN < n /\ n <= LOTTO_MAX

in_range(n) == LOTTO_MIN <= n /\ n <= LOTTO_MAX

\* Variant: the rules are checked one after the other over the whole list
\* (every element an integer, then every element in range, then no repeat).
validate_rule_by_rule(nums, i, seen) ==
    IF \E j \in i..Len(nums) : ~(nums[j].k \in {"int", "bool"})
    THEN [ok |-> FALSE, msg |-> MsgInteger]
    ELSE IF \E j \in i..Len(nums) : ~(LOTTO_MIN <= nums[j].v /\ nums[j].v <= LOTTO_MAX)
    THEN [ok |-> FALSE, msg |-> MsgRange]
    ELSE IF \E j \in i..Len(nums) :
                nums[j].v \in seen \/ \E l \in i..(j - 1) : nums[l].v = nums[j].v
    THEN [ok |-> FALSE, msg |-> MsgUnique]
    ELSE [ok |-> TRUE, msg |-> ""]

RECURSIVE validate_loop(_, _, _)
\* The for loop of validate_combination from element i on, with `seen`.
validate_loop(nums, i, seen) ==
    IF i > Len(nums) THEN [ok |-> TRUE, msg |-> ""]
    ELSE LET n == nums[i] IN
         IF ~isinstance_int(n) THEN [ok |-> FALSE, msg |-> MsgInteger]
         ELSE IF ~in_range(n.v) THEN [ok |-> FALSE, msg |-> MsgRange]
         ELSE IF n.v \in seen THEN [ok |-> FALSE, msg |-> MsgUnique]
         ELSE validate_loop(nums, i + 1, seen \cup {n.v})

validate_combination(nums) ==
    IF Len(nums) # NUMBERS_PER_COMBINATION
    THEN [ok |-> FALSE, msg |-> MsgLength]
    ELSE validate_loop(nums, 1, {})

(* ---------------- generate_unique_draw ---------------- *)
\* range(LOTTO_MIN, LOTTO_MAX + 1)
lotto_range == LOTTO_MIN..LOTTO_MAX

\* The part of the range the model lets random.sample choose from.
Population == {n \in lotto_range : n <= PopLow \/ n = LOTTO_MAX}

\* random.sample(range, NUMBERS_PER_COMBINATION): 7 distinct numbers; the order
\* is dropped because the code reads only frozenset(draw) and sorted(draw).
random_sample == {s \in SUBSET Population : Cardinality(s) = NUMBERS_PER_COMBINATION}

\* submitted_sets = {frozenset(c) for c in combinations}
submitted_sets(combinations) == {c : c \in combinations}

\* Variant: the test is dropped and the first sample is returned.
any_sample(d, combinations) == TRUE

\* The test of line 32: frozenset(draw) not in submitted_sets.
not_submitted(d, combinations) == d \notin submitted_sets(combinations)

\* Variant: the loop runs one iteration too many.
attempts_left_inclusive(n) == n <= max_attempts

\* range(max_attempts) still has an iteration left after `n` samples.
attempts_left(n) == n < max_attempts

MsgGenFailed == "Could not generate a non-matching draw after 10,000 attempts."

\* What a call can produce: the first sample that passes the test, sorted, or
\* RuntimeError when every one of the max_attempts samples was a submitted set
\* (possible exactly when some submitted set can be sampled).
generate_unique_draw(combinations) ==
    {[raised |-> FALSE, value |-> sorted_set(d)] :
        d \in {s \in random_sample : not_submitted(s, combinations)}}
    \cup
    (IF \E s \in random_sample : ~not_submitted(s, combinations)
     THEN {[raised |-> TRUE, value |-> <<>>]} ELSE {})

(* ---------------- analyse_hits ---------------- *)
\* Variant: the entry carries the 0-based position.
detail_zero_based(i, combo, draw_set) ==
    [index |-> i,
     combination |-> sorted(combo),
     hits |-> Cardinality(frozenset(combo) \cap draw_set),
     hit_numbers |-> sorted_set(frozenset(combo) \cap draw_set),
     miss_numbers |-> sorted_set(frozenset(combo) \ draw_set)]

\* One entry of details.
detail(i, combo, draw_set) ==
    [index |-> i + 1,
     combination |-> sorted(combo),
     hits |-> Cardinality(frozenset(combo) \cap draw_set),
     hit_numbers |-> sorted_set(frozenset(combo) \cap draw_set),
     miss_numbers |-> sorted_set(frozenset(combo) \ draw_set)]

\* Variant: three hits are reported too.
is_reported_from_three(hits) == hits >= 3

\* `if hits >= 4`
is_reported(hits) == hits >= 4

RECURSIVE by_hits_down(_, _)
\* The entries of s with h hits, then those with h - 1, ... down to 0, each
\* group in the order it has in s.
by_hits_down(s, h) ==
    IF h < 0 THEN <<>>
    ELSE SelectSeq(s, LAMBDA d : d.hits = h) \o by_hits_down(s, h - 1)

\* details.sort(key=lambda x: x["hits"], reverse=True): a stable sort by hits
\* descending; hits is the size of an intersection with the 7-number draw.
sort_details(s) == by_hits_down(s, NUMBERS_PER_COMBINATION)

\* hits of the combination at 0-based position i (line 65).
hits_at(combinations, draw_set, i) ==
    Cardinality(frozenset(combinations[i + 1]) \cap draw_set)

\* summary after the loop: summary[h] was incremented once for every
\* combination whose hits is the key h (`if hits in summary`).
summary_after(combinations, draw_set, keys) ==
    [h \in keys |->
        Cardinality({i \in 0..(Len(combinations) - 1) : hits_at(combinations, draw_set, i) = h})]

\* details after the loop: one entry, in submission order, for every position
\* whose combination passes `if hits >= 4`.
details_after(combinations, draw_set) ==
    SelectSeq([j \in 1..Len(combinations) |-> detail(j - 1, combinations[j], draw_set)],
              LAMBDA d : is_reported(d.hits))

analyse_hits(combinations, draw_set) ==
    LET summary == summary_after(combinations, draw_set, {4, 5, 6})
    IN [six_hits |-> summary[6],
        five_hits |-> summary[5],
        four_hits |-> summary[4],
        total_with_hits |-> summary[4] + summary[5] + summary[6],
        details |-> sort_details(details_after(combinations, draw_set))]

(* ---------------- the /draw handler ---------------- *)
Err(text, i, msg) == [text |-> text, i |-> i, msg |-> msg]

EmptyReport ==
    [six_hits |-> 0, five_hits |-> 0, four_hits |-> 0, total_with_hits |-> 0,
     details |-> <<>>]

NoResponse ==
    [status |-> 0, keys |-> {}, error |-> Err("", 0, ""), draw |-> <<>>,
     combinations_submitted |-> 0, unique_combinations |-> 0,
     message |-> [text |-> "", n |-> 0], hit_report |-> EmptyReport]

\* jsonify({"error": ...}), status
error_response(status, e) ==
    [NoResponse EXCEPT !.status = status, !.keys = {"error"}, !.error = e]

\* Variant: a batch of exactly MAX_COMBINATIONS is refused.
too_many_inclusive(n) == n >= MAX_COMBINATIONS

\* `len(combinations) > MAX_COMBINATIONS`
too_many(n) == n > MAX_COMBINATIONS

\* unique_combinations = list({frozenset(c) for c in validated})
dedup(vs) == {frozenset(vs[i]) : i \in 1..Len(vs)}

\* numbers = [int(n) for n in combo]
coerce(combo) == [j \in 1..Len(combo.items) |-> int(combo.items[j])]

\* One pass of the loop body (lines 115-124) for the element at 0-based
\* position i: the error it returns, or text "" when the element is appended.
check_element(combo, i) ==
    IF ~combo.isList
    THEN Err("Combination {i} is not a valid list.", i + 1, "")
    ELSE IF \E j \in 1..Len(combo.items) : int_raises(combo.items[j])
    THEN Err("Combination {i} contains non-integer values.", i + 1, "")
    ELSE LET v == validate_combination(Ints(coerce(combo)))
         IN IF ~v.ok THEN Err("Combination {i}: {msg}", i + 1, v.msg)
            ELSE Err("", 0, "")

\* The loop of lines 114-126: it returns at the first element whose pass
\* fails, with the elements before it validated; else all are validated.
validate_batch(combinations) ==
    LET failing == {i \in 0..(Len(combinations) - 1) :
                       check_element(combinations[i + 1], i).text # ""}
    IN IF failing = {}
       THEN [ok |-> TRUE, response |-> NoResponse,
             validated |-> [j \in 1..Len(combinations) |-> coerce(combinations[j])]]
       ELSE LET first == CHOOSE i \in failing : \A k \in failing : i <= k
            IN [ok |-> FALSE,
                response |-> error_response(400, check_element(combinations[first + 1], first)),
                validated |-> [j \in 1..first |-> coerce(combinations[j])]]

\* Lines 99-126: the checks on the request body, then the loop.
validate_request(d) ==
    IF d.kind \in {"none", "nokey"}
    THEN [ok |-> FALSE, validated |-> <<>>, response |->
            error_response(400, Err("No combinations provided.", 0, ""))]
    ELSE IF d.kind # "list" \/ Len(d.items) = 0
    THEN [ok |-> FALSE, validated |-> <<>>, response |->
            error_response(400, Err("Please provide at least one combination.", 0, ""))]
    ELSE IF too_many(Len(d.items))
    THEN [ok |-> FALSE, validated |-> <<>>, response |->
            error_response(400, Err("Maximum 200 combinations allowed.", 0, ""))]
    ELSE validate_batch(d.items)

\* Variant: the deduplicated count is reported as the submitted count.
submitted_count_unique(vs) == Cardinality({frozenset(vs[i]) : i \in 1..Len(vs)})

\* len(validated), line 142.
submitted_count(vs) == Len(vs)

\* Lines 133-134: the RuntimeError becomes a 500 carrying its text.
failure_response == error_response(500, Err(MsgGenFailed, 0, ""))

\* Lines 137-146.
success_response(vs, uniq, result) ==
    [status |-> 200,
     keys |-> {"draw", "combinations_submitted", "unique_combinations", "message",
               "hit_report"},
     error |-> Err("", 0, ""),
     draw |-> result,
     combinations_submitted |-> submitted_count(vs),
     unique_combinations |-> Cardinality(uniq),
     message |-> [text |-> "Draw generated! It does not match any of your {n} unique combination(s).",
                  n |-> Cardinality(uniq)],
     hit_report |-> analyse_hits(vs, frozenset(result))]

(* ---------------- inputs explored ---------------- *)
F(t) == [k |-> "float", v |-> t]
S(n) == [k |-> "str", v |-> n]
B(n) == [k |-> "bool", v |-> n]
Text == [k |-> "text", v |-> 0]
None == [k |-> "none", v |-> 0]

L(items) == [isList |-> TRUE, items |-> items]
NotAList == [isList |-> FALSE, items |-> <<>>]

Base == Ints(<<1, 2, 3, 4, 5, 6, 7>>)

\* Batch elements the handler accepts.
ValidCombos ==
    { L(Base),
      L(<<I(7), I(6), I(5), S(4), I(3), I(2), B(1)>>),
      L(<<I(1), I(2), F(37), I(4), I(5), I(6), I(7)>>),
      L(Ints(<<1, 2, 3, 4, 5, 6, 36>>)),
      L(Ints(<<21, 20, 5, 4, 3, 2, 1>>)),
      L(Ints(<<1, 2, 3, 20, 21, 22, 23>>)) }

\* Batch elements the handler rejects.
InvalidCombos ==
    { NotAList,
      L(Ints(<<1, 2, 3, 4, 5, 6>>)),
      L(Ints(<<1, 2, 3, 4, 5, 6, 7, 8>>)),
      L(<<Text, I(2)>>),
      L(<<I(1), I(2), I(3), Text, I(5), I(6), I(7)>>),
      L(<<I(1), None, I(3), I(4), I(5), I(6), I(7)>>),
      L(<<I(37), I(2), I(3), Text, I(5), I(6), I(7)>>),
      L(<<I(1), I(2), I(3), I(4), I(5), I(6), F(375)>>),
      L(Ints(<<0, 2, 3, 4, 5, 6, 7>>)),
      L(Ints(<<1, 2, 3, 4, 5, 6, 37>>)),
      L(Ints(<<1, 1, 3, 4, 5, 6, 7>>)),
      L(<<I(1), F(17), I(3), I(4), I(5), I(6), I(7)>>),
      L(Ints(<<1, 1, 37, 4, 5, 6, 7>>)) }

ComboPool == ValidCombos \cup InvalidCombos

\* Batches built element by element.
ShortBatches == UNION {[1..n -> ComboPool] : n \in 0..MaxBatchLen}

\* Batches at and just over the size limit: one element repeated.
LongBatches ==
    {[j \in 1..n |-> e] : n \in {MAX_COMBINATIONS, MAX_COMBINATIONS + 1},
                          e \in {L(Base), L(Ints(<<1, 2, 3, 4, 5, 6>>)), NotAList}}

\* Request bodies: no JSON / empty object, no "combinations" key, a
\* "combinations" that is no list, and lists.
Payloads ==
    {[kind |-> k, items |-> <<>>] : k \in {"none", "nokey", "notlist"}}
    \cup {[kind |-> "list", items |-> b] : b \in ShortBatches \cup LongBatches}

\* Arguments of direct calls of validate_combination: Base with up to two
\* positions replaced, and the same one element shorter or longer.
DirectValues ==
    {I(0), I(1), I(2), I(36), I(37), F(37), F(30), S(5), Text, None, B(1), B(0)}

DirectCalls ==
    LET sevens == {[[Base EXCEPT ![i] = x] EXCEPT ![j] = y] :
                      i \in 1..7, j \in 1..7, x \in DirectValues, y \in DirectValues}
    IN sevens
       \cup {SubSeq(c, 1, 6) : c \in sevens}
       \cup {Append(c, x) : c \in sevens, x \in {I(8), I(1), Text}}
       \cup {<<>>}

(* ---------------- state machine ---------------- *)
NoData == [kind |-> "none", items |-> <<>>]
NoResult == [ok |-> FALSE, msg |-> ""]

Init ==
    /\ pc = "idle"
    /\ data = NoData
    /\ numbers = <<>>
    /\ vresult = NoResult
    /\ validated = <<>>
    /\ unique_combinations = {}
    /\ attempts = 0
    /\ last_draw = {}
    /\ response = NoResponse

\* A direct call validate_combination(c).
call_validate ==
    /\ pc = "idle"
    /\ \E c \in DirectCalls :
         /\ numbers' = c
         /\ vresult' = validate_combination(c)
    /\ pc' = "returned"
    /\ UNCHANGED <<data, validated, unique_combinations, attempts, last_draw, response>>

\* POST /draw with body d, from the request to the response.
draw ==
    /\ pc = "idle"
    /\ pc' = "done"
    /\ \E d \in Payloads :
         LET v == validate_request(d) IN
         /\ data' = d
         /\ validated' = v.validated
         /\ IF ~v.ok
            THEN /\ response' = v.response
                 /\ unique_combinations' = {}
                 /\ last_draw' = {}
            ELSE /\ unique_combinations' = dedup(v.validated)
                 /\ \E out \in generate_unique_draw(dedup(v.validated)) :
                      IF out.raised
                      THEN /\ response' = failure_response
                           /\ last_draw' = {}
                      ELSE /\ response' = success_response(v.validated, dedup(v.validated), out.value)
                           /\ last_draw' = frozenset(out.value)
    /\ UNCHANGED <<numbers, vresult, attempts>>

Next ==
    \/ call_validate
    \/ draw

Spec == Init /\ [][Next]_vars

(* ---------------- the handler step by step ---------------- *)
\* Request bodies followed through every iteration of the sampling loop.
StepPayloads ==
    {[kind |-> "none", items |-> <<>>]}
    \cup {[kind |-> "list", items |-> b] : b \in
            { <<L(Base)>>,
              <<L(Base), L(<<I(7), I(6), I(5), S(4), I(3), I(2), B(1)>>)>>,
              <<L(Ints(<<1, 2, 3, 4, 5, 6, 36>>)), L(Base)>>,
              <<L(Ints(<<21, 20, 5, 4, 3, 2, 1>>))>>,
              <<L(Base), L(Ints(<<1, 2, 3, 4, 5, 6>>))>> }}

\* Lines 99-129: the request is validated and deduplicated; a rejected
\* request is answered at once, an accepted one enters generate_unique_draw.
receive ==
    /\ pc = "idle"
    /\ \E d \in StepPayloads :
         LET v == validate_request(d) IN
         /\ data' = d
         /\ validated' = v.validated
         /\ IF ~v.ok
            THEN /\ response' = v.response
                 /\ unique_combinations' = {}
                 /\ pc' = "done"
            ELSE /\ response' = NoResponse
                 /\ unique_combinations' = dedup(v.validated)
                 /\ pc' = "sampling"
    /\ attempts' = 0
    /\ UNCHANGED <<numbers, vresult, last_draw>>

\* One iteration of the for loop (lines 30-33). A sample that passes the test
\* is returned, and the loop's counter goes with the frame of
\* generate_unique_draw; any other sample is dropped and the loop goes on.
attempt ==
    /\ pc = "sampling"
    /\ attempts_left(attempts)
    /\ \E s \in random_sample :
         /\ last_draw' = s
         /\ IF not_submitted(s, unique_combinations)
            THEN /\ attempts' = 0
                 /\ pc' = "analysing"
            ELSE /\ attempts' = attempts + 1
                 /\ pc' = "sampling"
    /\ UNCHANGED <<data, numbers, vresult, validated, unique_combinations, response>>

\* Lines 137-146: result = sorted(draw) is analysed and the answer is sent.
respond ==
    /\ pc = "analysing"
    /\ response' = success_response(validated, unique_combinations, sorted_set(last_draw))
    /\ pc' = "done"
    /\ UNCHANGED <<data, numbers, vresult, validated, unique_combinations, attempts,
                   last_draw>>

\* The loop ran out (line 35); the handler catches the RuntimeError (133-134).
exhausted ==
    /\ pc = "sampling"
    /\ ~attempts_left(attempts)
    /\ response' = failure_response
    /\ attempts' = 0
    /\ pc' = "done"
    /\ UNCHANGED <<data, numbers, vresult, validated, unique_combinations, last_draw>>

NextSteps == receive \/ attempt \/ respond \/ exhausted

SpecSteps == Init /\ [][NextSteps]_vars

\* Every response of the step-by-step handler is one the one-step `draw` gives.
StepsAgree ==
    pc = "done" =>
        LET v == validate_request(data) IN
        IF ~v.ok THEN response = v.response
        ELSE \E out \in generate_unique_draw(dedup(v.validated)) :
                response = (IF out.raised THEN failure_response
                            ELSE success_response(v.validated, dedup(v.validated), out.value))

(* ---------------- properties ---------------- *)
Elems(s) == {s[i] : i \in 1..Len(s)}
Ascending(s) == \A i \in 1..(Len(s) - 1) : s[i] < s[i + 1]
Accepted == pc = "done" /\ response.status = 200
\* The numbers of the i-th submitted combination, as the handler reads them.
Submitted(i) == {int(data.items[i].items[j]) : j \in 1..Len(data.items[i].items)}
Hits(i) == Cardinality(Submitted(i) \cap Elems(response.draw))

\* C1: the draw of an accepted batch (1 to 200 combinations) has exactly 7
\* distinct numbers of 1..36 in ascending order, and its value-set equals the
\* value-set of no submitted combination.
C1_DrawUniqueAndWellFormed ==
    Accepted =>
        /\ Len(data.items) \in 1..200
        /\ Len(response.draw) = 7
        /\ Ascending(response.draw)
        /\ \A i \in 1..7 : response.draw[i] \in 1..36
        /\ \A i \in 1..Len(data.items) : Elems(response.draw) # Submitted(i)

\* A two-combination batch answered with a draw that shares 6 numbers with
\* one of them.
C1_Witness ==
    /\ Accepted
    /\ Len(data.items) = 2
    /\ \E i \in 1..2 : Hits(i) = 6

\* C7: in the hit report of an accepted batch six_hits + five_hits + four_hits
\* = total_with_hits = the number of details entries, and the three counts are
\* the numbers of submissions with exactly 6, 5 and 4 numbers in the draw.
C7_AggregateCounts ==
    Accepted =>
        LET r == response.hit_report
            count(h) == Cardinality({i \in 1..Len(data.items) : Hits(i) = h})
        IN /\ r.six_hits + r.five_hits + r.four_hits = r.total_with_hits
           /\ r.total_with_hits = Len(r.details)
           /\ r.six_hits = count(6)
           /\ r.five_hits = count(5)
           /\ r.four_hits = count(4)

\* A report with a 6-hit submission, a 4-hit submission and nothing else.
C7_Witness ==
    /\ Accepted
    /\ response.hit_report.six_hits = 1
    /\ response.hit_report.four_hits = 1
    /\ Len(response.hit_report.details) = 2

\* C8: for an accepted batch combinations_submitted is the number of
\* submitted combinations, duplicates included, and unique_combinations is
\* the number of distinct value-sets among them.
C8_SubmittedAndUniqueCounts ==
    Accepted =>
        /\ response.combinations_submitted = Len(data.items)
        /\ response.unique_combinations =
              Cardinality({Submitted(i) : i \in 1..Len(data.items)})

\* The same numbers submitted twice in different orders: 2 submitted, 1 unique.
C8_Witness ==
    /\ Accepted
    /\ Len(data.items) = 2
    /\ data.items[1] # data.items[2]
    /\ Submitted(1) = Submitted(2)
    /\ response.combinations_submitted = 2
    /\ response.unique_combinations = 1

\* C10: details holds exactly one record for every submission position whose
\* combination has at least 4 numbers in the draw (duplicates each their own)
\* and none for any other position; in a record hit_numbers is the ascending
\* intersection with the draw, miss_numbers the ascending rest, hits the
\* length of hit_numbers, and the two partition the combination's 7 numbers.
C10_DetailRecords ==
    Accepted =>
        LET ds == response.hit_report.details
            D == Elems(response.draw)
        IN /\ \A i \in 1..Len(data.items) :
                Cardinality({p \in 1..Len(ds) : ds[p].index = i})
                    = (IF Hits(i) >= 4 THEN 1 ELSE 0)
           /\ \A p \in 1..Len(ds) :
                /\ ds[p].index \in 1..Len(data.items)
                /\ Ascending(ds[p].hit_numbers)
                /\ Ascending(ds[p].miss_numbers)
                /\ Elems(ds[p].hit_numbers) = Submitted(ds[p].index) \cap D
                /\ Elems(ds[p].miss_numbers) = Submitted(ds[p].index) \ D
                /\ ds[p].hits = Len(ds[p].hit_numbers)
                /\ Len(ds[p].hit_numbers) + Len(ds[p].miss_numbers) = 7
                /\ Ascending(ds[p].combination)
                /\ Elems(ds[p].combination) = Submitted(ds[p].index)

\* The same value-set at positions 1 and 2, both reported, with misses.
C10_Witness ==
    /\ Accepted
    /\ Len(data.items) = 2
    /\ Submitted(1) = Submitted(2)
    /\ Len(response.hit_report.details) = 2
    /\ response.hit_report.details[1].index = 1
    /\ response.hit_report.details[2].index = 2
    /\ Len(response.hit_report.details[1].miss_numbers) = 2

IsInteger(x) == x.k \in {"int", "bool"}
Rejected(e) == pc = "done" /\ response.status = 400 /\ response.keys = {"error"}
                /\ response.error = e

\* C2: validate_combination(C) succeeds if and only if C has exactly 7
\* elements, each an integer in 1..36, none repeated; otherwise it fails with
\* one of its reasons.
C2_ValidateIff ==
    pc = "returned" =>
        /\ vresult.ok <=>
              /\ Len(numbers) = 7
              /\ \A i \in 1..Len(numbers) : IsInteger(numbers[i]) /\ numbers[i].v \in 1..36
              /\ \A i, j \in 1..Len(numbers) : i # j => numbers[i].v # numbers[j].v
        /\ ~vresult.ok => vresult.msg \in {MsgLength, MsgInteger, MsgRange, MsgUnique}
        /\ vresult.ok => vresult.msg = ""

\* A successful call on a combination holding both ends of the range.
C2_Witness ==
    /\ pc = "returned"
    /\ vresult.ok
    /\ \E i, j \in 1..7 : numbers[i] = I(1) /\ numbers[j] = I(36)

\* The message of the earliest rule, in the order length, integer, range,
\* uniqueness, that the combination c violates somewhere.
EarliestRuleMsg(c) ==
    IF Len(c) # 7 THEN MsgLength
    ELSE IF \E i \in 1..Len(c) : ~IsInteger(c[i]) THEN MsgInteger
    ELSE IF \E i \in 1..Len(c) : IsInteger(c[i]) /\ c[i].v \notin 1..36 THEN MsgRange
    ELSE MsgUnique

\* C3 as stated: a combination that violates several rules is reported with
\* the message of the earliest rule it violates, in validate_combination and
\* in the handler's "Combination {i}: {msg}".
C3_EarliestRuleWins ==
    /\ pc = "returned" /\ ~vresult.ok => vresult.msg = EarliestRuleMsg(numbers)
    /\ pc = "done" /\ response.error.text = "Combination {i}: {msg}" =>
          response.error.msg = EarliestRuleMsg(data.items[response.error.i].items)

\* Position i of c fails one of the three per-element checks.
FailsAt(c, i) ==
    \/ ~IsInteger(c[i])
    \/ c[i].v \notin 1..36
    \/ \E j \in 1..(i - 1) : c[j].v = c[i].v

\* The message of the first check that fails when the length is checked
\* first and the elements are then scanned left to right, each for integer,
\* range and repetition of an earlier element, in that order.
ScanMsg(c) ==
    IF Len(c) # 7 THEN MsgLength
    ELSE LET p == CHOOSE i \in 1..Len(c) :
                     FailsAt(c, i) /\ \A j \in 1..(i - 1) : ~FailsAt(c, j)
         IN IF ~IsInteger(c[p]) THEN MsgInteger
            ELSE IF c[p].v \notin 1..36 THEN MsgRange
            ELSE MsgUnique

\* C3 amended: the length is checked first; the elements are then scanned
\* left to right, each for integer, range and uniqueness in that order, and
\* the first failing check of the scan gives the message. The handler's
\* "Combination {i}: {msg}" carries that message for the numbers int() gave.
C3_FirstFailingCheckOfScan ==
    /\ pc = "returned" /\ ~vresult.ok => vresult.msg = ScanMsg(numbers)
    /\ pc = "done" /\ response.error.text = "Combination {i}: {msg}" =>
          LET e == data.items[response.error.i].items
          IN response.error.msg = ScanMsg([j \in 1..Len(e) |-> I(int(e[j]))])

\* A repeat at position 2 and an out-of-range number at position 3: the
\* uniqueness message is given although the range rule is violated too.
C3_Witness ==
    /\ pc = "returned"
    /\ Len(numbers) = 7
    /\ numbers[1] = numbers[2]
    /\ numbers[3] = I(37)
    /\ vresult.msg = MsgUnique

\* A fractional number or a text that is no number.
NonIntegerValued(x) == x.k = "text" \/ (x.k = "float" /\ x.v % 10 # 0)

\* C4 as stated: a 7-element combination holding a non-integer-valued element
\* is never accepted, and submitted alone it is rejected with "All numbers
\* must be integers."
C4_NonIntegerRejected ==
    pc = "done" /\ data.kind = "list" =>
        \A i \in 1..Len(data.items) :
            ( /\ data.items[i].isList
              /\ Len(data.items[i].items) = 7
              /\ \E j \in 1..7 : NonIntegerValued(data.items[i].items[j]) )
            => /\ response.status # 200
               /\ Len(data.items) = 1 =>
                     Rejected(Err("Combination {i}: {msg}", 1, MsgInteger))

\* The element is a list the handler validates without error.
ElementOK(e) ==
    /\ e.isList
    /\ Len(e.items) = 7
    /\ \A j \in 1..Len(e.items) :
          /\ e.items[j].k \notin {"text", "none"}
          /\ int(e.items[j]) \in 1..36
    /\ \A j, l \in 1..Len(e.items) : j # l => int(e.items[j]) # int(e.items[l])

FirstNonList == CHOOSE i \in 1..Len(data.items) :
                    ~data.items[i].isList /\ \A j \in 1..(i - 1) : data.items[j].isList

BatchErr(text) == Err(text, 0, "")

\* C5 as stated: the three batch-level checks all come before any
\* per-combination validation, and a batch of exactly 200 passes the size check.
C5_BatchChecksFirst ==
    pc = "done" /\ data.kind \in {"notlist", "list"} =>
        /\ (data.kind = "notlist" \/ Len(data.items) = 0) =>
              Rejected(BatchErr("Please provide at least one combination."))
        /\ (data.kind = "list" /\ Len(data.items) > 200) =>
              Rejected(BatchErr("Maximum 200 combinations allowed."))
        /\ (data.kind = "list" /\ Len(data.items) = 200) =>
              response.error.text # "Maximum 200 combinations allowed."
        /\ (data.kind = "list" /\ Len(data.items) \in 1..200
            /\ \E i \in 1..Len(data.items) : ~data.items[i].isList) =>
              Rejected(Err("Combination {i} is not a valid list.", FirstNonList, ""))

\* C5 amended: the non-empty-list check and the size check come before any
\* per-combination validation, and a batch of 1 to 200 passes both; the list
\* check of an element is made when the loop reaches it, so a batch is
\* rejected with "Combination {i} is not a valid list." exactly when i is its
\* first non-list element and every element before i is valid; otherwise the
\* first invalid element before i gives the message.
C5_BatchChecksThenLoop ==
    pc = "done" /\ data.kind \in {"notlist", "list"} =>
        /\ (data.kind = "notlist" \/ Len(data.items) = 0) =>
              Rejected(BatchErr("Please provide at least one combination."))
        /\ (data.kind = "list" /\ Len(data.items) > 200) =>
              Rejected(BatchErr("Maximum 200 combinations allowed."))
        /\ (data.kind = "list" /\ Len(data.items) \in 1..200) =>
              response.error.text \notin {"Maximum 200 combinations allowed.",
                                          "Please provide at least one combination."}
        /\ (data.kind = "list" /\ Len(data.items) \in 1..200
            /\ \E i \in 1..Len(data.items) : ~data.items[i].isList) =>
              IF \A j \in 1..(FirstNonList - 1) : ElementOK(data.items[j])
              THEN Rejected(Err("Combination {i} is not a valid list.", FirstNonList, ""))
              ELSE /\ response.status = 400
                   /\ response.error.text \in {"Combination {i} contains non-integer values.",
                                               "Combination {i}: {msg}"}
                   /\ response.error.i \in 1..(FirstNonList - 1)
                   /\ ~ElementOK(data.items[response.error.i])
                   /\ \A j \in 1..(response.error.i - 1) : ElementOK(data.items[j])
        /\ (data.kind = "list" /\ response.error.text = "Combination {i} is not a valid list.") =>
              /\ ~data.items[response.error.i].isList
              /\ \A j \in 1..(response.error.i - 1) : ElementOK(data.items[j])

\* A batch of 201 combinations of the wrong length, refused for its size.
C5_Witness ==
    /\ pc = "done"
    /\ data.kind = "list"
    /\ Len(data.items) = 201
    /\ data.items[1].isList /\ Len(data.items[1].items) = 6
    /\ Rejected(BatchErr("Maximum 200 combinations allowed."))

SingleBase == data = [kind |-> "list", items |-> <<L(Base)>>]

\* C9 as stated: for the batch [[1,2,3,4,5,6,7]] the draw is a 7-element
\* ascending list that shares no number with {1,...,7}.
C9_DrawDisjoint ==
    Accepted /\ SingleBase =>
        /\ Len(response.draw) = 7
        /\ Ascending(response.draw)
        /\ Elems(response.draw) \cap 1..7 = {}

\* C9 amended: for the batch [[1,2,3,4,5,6,7]] the draw is a 7-element
\* ascending list whose value-set is not {1,...,7}: it shares at most 6
\* numbers with the submitted combination.
C9_DrawDiffers ==
    Accepted /\ SingleBase =>
        /\ Len(response.draw) = 7
        /\ Ascending(response.draw)
        /\ Elems(response.draw) # 1..7
        /\ Cardinality(Elems(response.draw) \cap 1..7) <= 6

\* The batch [[1,2,3,4,5,6,7]] answered with the draw [1,2,3,4,5,6,36].
C9_Witness ==
    /\ Accepted
    /\ SingleBase
    /\ response.draw = <<1, 2, 3, 4, 5, 6, 36>>

\* C6: the sampling loop makes at most 10,000 attempts; it goes on only past
\* a sample that is a submitted set and returns the first sample that is not;
\* after 10,000 such samples the handler answers 500 with the error alone,
\* while every input-validation answer carries 400.
C6_BoundedSampling ==
       [][ /\ pc = "sampling" =>
               /\ attempts <= max_attempts
               /\ pc' = "sampling" =>
                     /\ attempts' = attempts + 1
                     /\ attempts' <= max_attempts
                     /\ last_draw' \in unique_combinations
               /\ pc' = "analysing" =>
                     /\ attempts < max_attempts
                     /\ last_draw' \notin unique_combinations
               /\ pc' = "done" =>
                     /\ attempts = max_attempts
                     /\ response'.status = 500
                     /\ response'.keys = {"error"}
                     /\ response'.error.text = MsgGenFailed
                     /\ response'.draw = <<>>
           /\ pc = "analysing" =>
               /\ response'.status = 200
               /\ response'.draw = sorted_set(last_draw)
               /\ "error" \notin response'.keys
           /\ (pc = "idle" /\ pc' = "done") =>
               /\ response'.status = 400
               /\ response'.error.text # MsgGenFailed
         ]_vars

\* The 10,000 attempts were used up and the handler answered 500.
C6_Witness ==
    /\ pc = "done"
    /\ response.status = 500
    /\ response.keys = {"error"}
    /\ unique_combinations # {}

====
